---- MODULE Spec2Model ----
(***************************************************************************)
(* Model of the StackSet custom resource Lambda                            *)
(* (StackSetsResource/FunctionCode/lambda_function.py).                    *)
(*                                                                         *)
(* Two specifications share the module:                                    *)
(*   SpecFn  applies the pure helpers (flatten_stacks, aggregate_instances,*)
(*           the instance diff of update, change_requires_update) to       *)
(*           inputs drawn from bounded sets;                               *)
(*   Spec    runs the create / update / delete handlers against a          *)
(*           CloudFormation service whose answers are nondeterministic.    *)
(*                                                                         *)
(* Python strings that the code formats and splits (account ids, region    *)
(* names, the "account/region" keys) are sequences of one-character        *)
(* strings; every other string is an atom.                                 *)
(***************************************************************************)
EXTENDS Integers, Sequences, FiniteSets, TLC

VARIABLES
    fname,      \* SpecFn: the helper that was applied last ("none" at start)
    fargs,      \* SpecFn: its arguments
    fret,       \* SpecFn: what it returned or raised
    event,      \* Spec: the CloudFormation custom resource event
    pc,         \* Spec: the handler's control point
    set_id,     \* Spec: the handler's set_id
    todo,       \* Spec: instance groups the current for-loop has still to visit
    this_try,   \* Spec: this_try of the retry loop being run
    ncalls,     \* Spec: SDK calls made so far by the retry loop being run
    slept,      \* Spec: whether the last iteration of the retry loop called sleep()
    lastResp,   \* Spec: the service's answer to the last SDK call
    loop,       \* Spec: the retry loop being run or last run, and how it ended
    calls,      \* Spec: the requests issued so far, one entry per retry loop
    outcome     \* Spec: "running", or how the handler ended, with its value

fnvars == <<fname, fargs, fret>>
hvars == <<event, pc, set_id, todo, this_try, ncalls, slept, lastResp, loop, calls,
           outcome>>
vars == <<fname, fargs, fret, event, pc, set_id, todo, this_try, ncalls, slept,
          lastResp, loop, calls, outcome>>

(***************************************************************************)
(* Bounds of the model.                                                    *)
(***************************************************************************)
\* most (account, region) cells the instance specifications of one input produce
MaxCells == 4
\* most instance specifications in one input of flatten_stacks
MaxSpecs == 2
\* longest attribute list given to change_requires_update
MaxAttrs == 2
\* the keys of an OperationPreferences map given to convert_ops_prefs
MaxPrefs == 3
\* most cells the StackInstances of one event produce (old and new together)
MaxEventCells == 2

(***************************************************************************)
(* Program constants.                                                      *)
(***************************************************************************)
\* retries = 20 of every retry loop
Retries == 20

(***************************************************************************)
(* Python values.                                                          *)
(***************************************************************************)
Return(v) == [raised |-> FALSE, value |-> v]
Raise(m) == [raised |-> TRUE, value |-> m]

\* the range of a sequence
Range(s) == {s[i] : i \in DOMAIN s}

\* every ordering of a finite set: the orders in which Python may iterate a
\* set of strings (the order depends on the process's hash seed)
Orders(S) ==
    {s \in [1..Cardinality(S) -> S] : \A i, j \in 1..Cardinality(S) : s[i] = s[j] => i = j}

\* account ids and region names: strings without "/"
Acct1 == <<"1", "1">>
Acct2 == <<"2">>
RegE == <<"e">>
RegW == <<"w", "1">>
AccountIds == {Acct1, Acct2}
RegionIds == {RegE, RegW}

\* a ParameterOverrides value: a list of one-entry dicts
Override1 == <<[key |-> "Env", value |-> "prod"]>>
OverrideValues == {Override1}

(***************************************************************************)
(* Inputs of the helpers.                                                  *)
(***************************************************************************)
\* the non-empty lists over S of at most n elements (repeats allowed)
Lists(S, n) == UNION {[1..k -> S] : k \in 1..n}

\* one StackInstances entry: Accounts, Regions and, optionally,
\* ParameterOverrides, with ids from A and R, producing at most n cells
InstanceSpecsOver(A, R, n) ==
    LET shapes == {ar \in Lists(A, n) \X Lists(R, n) : Len(ar[1]) * Len(ar[2]) <= n}
    IN  {[Accounts |-> ar[1], Regions |-> ar[2]] : ar \in shapes}
        \cup {[Accounts |-> ar[1], Regions |-> ar[2], ParameterOverrides |-> o] :
                  ar \in shapes, o \in OverrideValues}

NCells(instance) == Len(instance.Accounts) * Len(instance.Regions)

RECURSIVE TotalCells(_)
TotalCells(stackinstances) ==
    IF stackinstances = <<>> THEN 0
    ELSE NCells(Head(stackinstances)) + TotalCells(Tail(stackinstances))

\* the StackInstances lists over A and R of at most m entries that produce at
\* most n cells in all
RECURSIVE StackInstanceListsOver(_, _, _, _)
StackInstanceListsOver(A, R, m, n) ==
    IF m = 0 THEN {<<>>}
    ELSE {<<>>} \cup
         UNION {LET rests == StackInstanceListsOver(A, R, m - 1, n - c)
                IN  {<<i>> \o rest :
                         i \in {x \in InstanceSpecsOver(A, R, n) : NCells(x) = c},
                         rest \in rests} :
                    c \in 1..n}

StackInstanceLists(m, n) == StackInstanceListsOver(AccountIds, RegionIds, m, n)

(***************************************************************************)
(* flatten_stacks                                                          *)
(***************************************************************************)
\* "%s/%s" % (account, region)
FormatTuple(account, region) == account \o <<"/">> \o region

\* mutant: the overrides of a specification are not copied to its cells
instance_overrides_dropped(instance) == <<>>

\* the overrides flatten_stacks stores for a cell of `instance`
InstanceOverrides(instance) ==
    IF "ParameterOverrides" \in DOMAIN instance THEN instance.ParameterOverrides ELSE <<>>

\* the three nested for-loops of flatten_stacks, resumed at instance i,
\* account a, region r, with flat_stacks as built so far
RECURSIVE FlattenLoop(_, _, _, _, _)
FlattenLoop(stackinstances, i, a, r, flat_stacks) ==
    IF i > Len(stackinstances) THEN Return(flat_stacks)
    ELSE LET instance == stackinstances[i] IN
         IF a > Len(instance.Accounts)
         THEN FlattenLoop(stackinstances, i + 1, 1, 1, flat_stacks)
         ELSE IF r > Len(instance.Regions)
         THEN FlattenLoop(stackinstances, i, a + 1, 1, flat_stacks)
         ELSE LET tuple == FormatTuple(instance.Accounts[a], instance.Regions[r]) IN
              IF tuple \in DOMAIN flat_stacks
              THEN Raise(<<"is defined multiple times", tuple>>)
              ELSE FlattenLoop(stackinstances, i, a, r + 1,
                               (tuple :> InstanceOverrides(instance)) @@ flat_stacks)

\* mutant: the duplicate test is dropped and a later cell overwrites an earlier one
RECURSIVE FlattenLoopNoCheck(_, _, _, _, _)
FlattenLoopNoCheck(stackinstances, i, a, r, flat_stacks) ==
    IF i > Len(stackinstances) THEN Return(flat_stacks)
    ELSE LET instance == stackinstances[i] IN
         IF a > Len(instance.Accounts)
         THEN FlattenLoopNoCheck(stackinstances, i + 1, 1, 1, flat_stacks)
         ELSE IF r > Len(instance.Regions)
         THEN FlattenLoopNoCheck(stackinstances, i, a + 1, 1, flat_stacks)
         ELSE LET tuple == FormatTuple(instance.Accounts[a], instance.Regions[r]) IN
              FlattenLoopNoCheck(stackinstances, i, a, r + 1,
                                 (tuple :> InstanceOverrides(instance)) @@ flat_stacks)

flatten_stacks_nocheck(stackinstances) ==
    FlattenLoopNoCheck(stackinstances, 1, 1, 1, <<>>)

flatten_stacks(stackinstances) == FlattenLoop(stackinstances, 1, 1, 1, <<>>)

(***************************************************************************)
(* group_by_account and aggregate_instances                                *)
(***************************************************************************)
\* str.split(sep, maxsplit): the pieces of s between the sep characters, at
\* most maxsplit cuts being made (maxsplit < 0: no limit)
RECURSIVE SplitFrom(_, _, _, _, _)
SplitFrom(s, sep, maxsplit, i, piece) ==
    IF i > Len(s) THEN <<piece>>
    ELSE IF maxsplit = 0 THEN <<piece \o SubSeq(s, i, Len(s))>>
    ELSE IF s[i] = sep THEN <<piece>> \o SplitFrom(s, sep, maxsplit - 1, i + 1, <<>>)
    ELSE SplitFrom(s, sep, maxsplit, i + 1, Append(piece, s[i]))

SplitOn(s, sep) == SplitFrom(s, sep, -1, 1, <<>>)

\* instance.split('/')
Split(s) == SplitOn(s, "/")

\* a Python dict that keeps insertion order: its keys in that order, and its values
EmptyDict == [keys |-> <<>>, val |-> <<>>]

\* the for-loop of group_by_account over the keys in iteration order `order`
RECURSIVE GroupLoop(_, _, _, _)
GroupLoop(order, flat_stacks, i, grouped_accounts) ==
    IF i > Len(order) THEN Return(grouped_accounts)
    ELSE LET instance == order[i]
             parts == Split(instance)
         IN  IF Len(parts) # 2 THEN Raise(<<"ValueError", instance>>)
             ELSE LET account == parts[1]
                      region == parts[2]
                  IN  IF account \in DOMAIN grouped_accounts.val
                      THEN IF flat_stacks[instance] = grouped_accounts.val[account].overrides
                           THEN GroupLoop(order, flat_stacks, i + 1,
                                    [grouped_accounts EXCEPT
                                        !.val[account].regions = Append(@, region)])
                           ELSE Raise(<<"The overrides didn't match account group for",
                                        instance>>)
                      ELSE GroupLoop(order, flat_stacks, i + 1,
                               [keys |-> Append(grouped_accounts.keys, account),
                                val |-> (account :> [regions |-> <<region>>,
                                                     overrides |-> flat_stacks[instance]])
                                        @@ grouped_accounts.val])

group_by_account(order, flat_stacks) == GroupLoop(order, flat_stacks, 1, EmptyDict)

\* s without the elements for which drop holds
SelectSeq2(s, dropped) == SelectSeq(s, LAMBDA x : x \notin dropped)

\* the while-loop of aggregate_instances: popitem() takes the entry inserted
\* last, the accounts left with an equal value join it
RECURSIVE AggregateLoop(_, _)
AggregateLoop(accounts, instances) ==
    IF accounts.keys = <<>> THEN instances
    ELSE LET source_account == accounts.keys[Len(accounts.keys)]
             values == accounts.val[source_account]
             left == SubSeq(accounts.keys, 1, Len(accounts.keys) - 1)
             aggregated == SelectSeq(left, LAMBDA account : accounts.val[account] = values)
             aggregated_accounts == Append(aggregated, source_account)
             keys == SelectSeq2(left, Range(aggregated))
         IN  AggregateLoop(
                 [keys |-> keys, val |-> [k \in Range(keys) |-> accounts.val[k]]],
                 Append(instances, [accounts |-> aggregated_accounts,
                                    regions |-> values.regions,
                                    overrides |-> values.overrides]))

\* account_list is the list of keys in the order the caller's list(set) gave them
aggregate_instances(account_list, flat_stacks) ==
    LET accounts == group_by_account(account_list, flat_stacks)
    IN  IF accounts.raised THEN accounts
        ELSE Return(AggregateLoop(accounts.value, <<>>))

(***************************************************************************)
(* The instance diff of update                                             *)
(***************************************************************************)
\* list(set(new_stacks) - set(old_stacks))
to_add(old_stacks, new_stacks) == DOMAIN new_stacks \ DOMAIN old_stacks

\* mutant: no instance is ever found to be deleted
to_delete_none(old_stacks, new_stacks) == {}

\* list(set(old_stacks) - set(new_stacks))
to_delete(old_stacks, new_stacks) == DOMAIN old_stacks \ DOMAIN new_stacks

\* list(set(old_stacks).intersection(new_stacks))
to_compare(old_stacks, new_stacks) == DOMAIN old_stacks \cap DOMAIN new_stacks

\* mutant: the test is inverted and the keys with equal overrides are kept
to_update_same(old_stacks, new_stacks) ==
    {instance \in to_compare(old_stacks, new_stacks) :
         old_stacks[instance] = new_stacks[instance]}

\* the keys of to_compare the loop appends to to_update ("DIFFERENT!")
to_update(old_stacks, new_stacks) ==
    {instance \in to_compare(old_stacks, new_stacks) :
         ~(old_stacks[instance] = new_stacks[instance])}

\* the keys of to_compare the loop only logs ("SAME!")
unchanged(old_stacks, new_stacks) ==
    {instance \in to_compare(old_stacks, new_stacks) :
         old_stacks[instance] = new_stacks[instance]}

(***************************************************************************)
(* change_requires_update                                                  *)
(***************************************************************************)
\* mutant: an attribute that was removed is not seen as a change
RECURSIVE ChangeLoopNoRemoval(_, _, _, _)
ChangeLoopNoRemoval(attributes, old_values, current_values, i) ==
    IF i > Len(attributes) THEN FALSE
    ELSE LET attribute == attributes[i] IN
         IF attribute \notin DOMAIN old_values /\ attribute \in DOMAIN current_values
         THEN TRUE
         ELSE IF attribute \in DOMAIN old_values /\ attribute \in DOMAIN current_values
                 /\ current_values[attribute] # old_values[attribute]
         THEN TRUE
         ELSE ChangeLoopNoRemoval(attributes, old_values, current_values, i + 1)

change_requires_update_no_removal(attributes, old_values, current_values) ==
    ChangeLoopNoRemoval(attributes, old_values, current_values, 1)

\* the for-loop of change_requires_update, resumed at attribute i
RECURSIVE ChangeLoop(_, _, _, _)
ChangeLoop(attributes, old_values, current_values, i) ==
    IF i > Len(attributes) THEN FALSE
    ELSE LET attribute == attributes[i] IN
         IF attribute \notin DOMAIN old_values /\ attribute \in DOMAIN current_values
         THEN TRUE
         ELSE IF attribute \in DOMAIN old_values /\ attribute \notin DOMAIN current_values
         THEN TRUE
         ELSE IF attribute \in DOMAIN old_values /\ attribute \in DOMAIN current_values
                 /\ current_values[attribute] # old_values[attribute]
         THEN TRUE
         ELSE ChangeLoop(attributes, old_values, current_values, i + 1)

change_requires_update(attributes, old_values, current_values) ==
    ChangeLoop(attributes, old_values, current_values, 1)

(***************************************************************************)
(* convert_ops_prefs                                                       *)
(***************************************************************************)
\* int(value) for a string: decimal digits with an optional sign; anything
\* else is a ValueError
DigitChars == <<"0", "1", "2", "3", "4", "5", "6", "7", "8", "9">>
IsDigits(value) == value # <<>> /\ \A i \in DOMAIN value : value[i] \in Range(DigitChars)
DigitOf(c) == (CHOOSE i \in DOMAIN DigitChars : DigitChars[i] = c) - 1
RECURSIVE IntOf(_)
IntOf(value) ==
    IF value = <<>> THEN 0
    ELSE 10 * IntOf(SubSeq(value, 1, Len(value) - 1)) + DigitOf(value[Len(value)])

HasSign(value) == value # <<>> /\ value[1] \in {"-", "+"}
IsIntLiteral(value) == IsDigits(IF HasSign(value) THEN Tail(value) ELSE value)
IntValue(value) ==
    IF HasSign(value)
    THEN IF value[1] = "-" THEN 0 - IntOf(Tail(value)) ELSE IntOf(Tail(value))
    ELSE IntOf(value)

needs_conversion ==
    {"FailureToleranceCount", "FailureTolerancePercentage", "MaxConcurrentCount",
     "MaxConcurrentPercentage"}

\* mutant: a key that is not known is passed on
convert_ops_prefs_keeps_unknown(ops_prefs) ==
    IF \E key \in DOMAIN ops_prefs :
           key \in needs_conversion /\ ~IsIntLiteral(ops_prefs[key])
    THEN Raise(<<"ValueError", "int">>)
    ELSE Return([key \in DOMAIN ops_prefs
                    |-> IF key \in needs_conversion THEN IntValue(ops_prefs[key])
                        ELSE ops_prefs[key]])

\* convert_ops_prefs: the numeric preferences as ints, RegionOrder as it is,
\* every other key dropped
convert_ops_prefs(ops_prefs) ==
    IF \E key \in DOMAIN ops_prefs :
           key \in needs_conversion /\ ~IsIntLiteral(ops_prefs[key])
    THEN Raise(<<"ValueError", "int">>)
    ELSE Return([key \in {k \in DOMAIN ops_prefs : k \in needs_conversion \/ k = "RegionOrder"}
                    |-> IF key \in needs_conversion THEN IntValue(ops_prefs[key])
                        ELSE ops_prefs[key]])

(***************************************************************************)
(* SpecFn: the helpers applied to bounded inputs.                          *)
(***************************************************************************)
\* the keys flatten_stacks can build, and the flat maps over them
FlatKeys == {FormatTuple(a, r) : a \in AccountIds, r \in RegionIds}
FlatValues == {<<>>} \cup OverrideValues
FlatMaps == UNION {[K -> FlatValues] : K \in SUBSET FlatKeys}

\* attribute maps and attribute lists for change_requires_update
AttrNames == {"A", "B"}
AttrValues == {1, 2, 3}
AttrMaps == UNION {[K -> AttrValues] : K \in SUBSET AttrNames}
AttrLists == {<<>>} \cup Lists(AttrNames, MaxAttrs)

\* the arguments SpecFn starts from: a StackInstances list for
\* flatten_stacks, two flat maps for the diff, or a list and two maps for
\* change_requires_update
\* OperationPreferences maps of at most n keys: the strings a template can
\* give a numeric preference, two region orders, and a key that is not known
PrefStrings == {<<"1", "0">>, <<"-", "5">>, <<"0", "7">>, <<"x">>, <<"-">>}
PrefValues(key) ==
    IF key \in needs_conversion THEN PrefStrings
    ELSE IF key = "RegionOrder" THEN {<<RegE>>, <<RegW, RegE>>}
    ELSE {"x"}
PrefKeys ==
    <<"FailureToleranceCount", "FailureTolerancePercentage", "MaxConcurrentCount",
      "MaxConcurrentPercentage", "RegionOrder", "Other">>
\* the maps over the keys from PrefKeys[i] on that have at most n keys
RECURSIVE OpsPrefsMapsFrom(_, _)
OpsPrefsMapsFrom(i, n) ==
    IF i > Len(PrefKeys) THEN {<<>>}
    ELSE OpsPrefsMapsFrom(i + 1, n)
         \cup (IF n = 0 THEN {}
               ELSE {(PrefKeys[i] :> v) @@ m :
                         v \in PrefValues(PrefKeys[i]), m \in OpsPrefsMapsFrom(i + 1, n - 1)})
OpsPrefsMaps(n) == OpsPrefsMapsFrom(1, n)

IsFnInput(args, cells) ==
    \/ \E p \in OpsPrefsMaps(MaxPrefs) :
         args = [fn |-> "convert_ops_prefs", ops_prefs |-> p]
    \/ \E si \in StackInstanceLists(MaxSpecs, cells) :
         args = [fn |-> "flatten_stacks", stackinstances |-> si]
    \/ \E o \in FlatMaps, n \in FlatMaps :
         args = [fn |-> "instance_diff", old_stacks |-> o, new_stacks |-> n]
    \/ \E l \in AttrLists, o \in AttrMaps, c \in AttrMaps :
         args = [fn |-> "change_requires_update", attributes |-> l,
                 old_values |-> o, current_values |-> c]

\* the handler's variables while only helpers run
HandlerIdle ==
    /\ event = [RequestType |-> "none"]
    /\ pc = "idle"
    /\ set_id = <<>>
    /\ todo = <<>>
    /\ this_try = 0
    /\ ncalls = 0
    /\ slept = FALSE
    /\ lastResp = "none"
    /\ loop = [name |-> "none", ended |-> "none"]
    /\ calls = <<>>
    /\ outcome = [kind |-> "running"]

InitFn ==
    /\ fname = "none"
    /\ IsFnInput(fargs, MaxCells)
    /\ fret = "none"
    /\ HandlerIdle

ApplyFlatten ==
    /\ fname = "none"
    /\ fargs.fn = "flatten_stacks"
    /\ fname' = "flatten_stacks"
    /\ fret' = flatten_stacks(fargs.stackinstances)
    /\ UNCHANGED <<fargs, hvars>>

\* aggregate_instances on a flat map flatten_stacks returned, for a subset of
\* its keys listed in any order
ApplyAggregate ==
    /\ fname = "flatten_stacks"
    /\ ~fret.raised
    /\ \E selected \in SUBSET DOMAIN fret.value :
         \E account_list \in Orders(selected) :
           /\ fname' = "aggregate_instances"
           /\ fargs' = [fn |-> "aggregate_instances", account_list |-> account_list,
                        flat_stacks |-> fret.value]
           /\ fret' = aggregate_instances(account_list, fret.value)
    /\ UNCHANGED hvars

ApplyDiff ==
    /\ fname = "none"
    /\ fargs.fn = "instance_diff"
    /\ fname' = "instance_diff"
    /\ fret' = [to_add |-> to_add(fargs.old_stacks, fargs.new_stacks),
                to_delete |-> to_delete(fargs.old_stacks, fargs.new_stacks),
                to_compare |-> to_compare(fargs.old_stacks, fargs.new_stacks),
                to_update |-> to_update(fargs.old_stacks, fargs.new_stacks),
                unchanged |-> unchanged(fargs.old_stacks, fargs.new_stacks)]
    /\ UNCHANGED <<fargs, hvars>>

ApplyChange ==
    /\ fname = "none"
    /\ fargs.fn = "change_requires_update"
    /\ fname' = "change_requires_update"
    /\ fret' = change_requires_update(fargs.attributes, fargs.old_values,
                                      fargs.current_values)
    /\ UNCHANGED <<fargs, hvars>>

ApplyConvert ==
    /\ fname = "none"
    /\ fargs.fn = "convert_ops_prefs"
    /\ fname' = "convert_ops_prefs"
    /\ fret' = convert_ops_prefs(fargs.ops_prefs)
    /\ UNCHANGED <<fargs, hvars>>

NextFn == ApplyFlatten \/ ApplyAggregate \/ ApplyDiff \/ ApplyChange \/ ApplyConvert

SpecFn == InitFn /\ [][NextFn]_vars

(***************************************************************************)
(* Claims about the helpers (checked under SpecFn).                        *)
(***************************************************************************)
\* the (account, region) pairs an instance specification produces, in order
CellsOf(instance) ==
    [k \in 1..NCells(instance) |->
        <<instance.Accounts[((k - 1) \div Len(instance.Regions)) + 1],
          instance.Regions[((k - 1) % Len(instance.Regions)) + 1]>>]

RECURSIVE AllCells(_)
AllCells(stackinstances) ==
    IF stackinstances = <<>> THEN <<>>
    ELSE CellsOf(Head(stackinstances)) \o AllCells(Tail(stackinstances))

HasDuplicateCell(stackinstances) ==
    LET cells == AllCells(stackinstances)
    IN  \E i, j \in DOMAIN cells : i < j /\ cells[i] = cells[j]

\* C1: flatten_stacks raises exactly when some (account, region) pair is
\* produced more than once, by two specifications or twice by one.
C1_FlattenRaisesIffDuplicate ==
    fname = "flatten_stacks" =>
        (fret.raised <=> HasDuplicateCell(fargs.stackinstances))

\* C1 witness: two specifications that produce the same pair made it raise
C1_Witness ==
    /\ fname = "flatten_stacks"
    /\ Len(fargs.stackinstances) = 2
    /\ ~HasDuplicateCell(<<fargs.stackinstances[1]>>)
    /\ ~HasDuplicateCell(<<fargs.stackinstances[2]>>)
    /\ fret.raised

\* the cells an aggregated group list expands to: accounts x regions of each
\* group, each with the group's overrides
RECURSIVE ExpandGroups(_)
ExpandGroups(groups) ==
    IF groups = <<>> THEN <<>>
    ELSE LET g == Head(groups)
             n == Len(g.accounts) * Len(g.regions)
         IN  [k \in 1..n |->
                 [account |-> g.accounts[((k - 1) \div Len(g.regions)) + 1],
                  region |-> g.regions[((k - 1) % Len(g.regions)) + 1],
                  overrides |-> g.overrides]]
             \o ExpandGroups(Tail(groups))

RoundTrips(groups, selected, flat_stacks) ==
    LET cells == ExpandGroups(groups)
    IN  /\ \A i \in DOMAIN cells :
             /\ cells[i].account \in AccountIds
             /\ cells[i].region \in RegionIds
             /\ FormatTuple(cells[i].account, cells[i].region) \in selected
             /\ cells[i].overrides =
                    flat_stacks[FormatTuple(cells[i].account, cells[i].region)]
        /\ \A a \in AccountIds, r \in RegionIds :
             FormatTuple(a, r) \in selected =>
                 Cardinality({i \in DOMAIN cells :
                                  cells[i].account = a /\ cells[i].region = r}) = 1

\* C2: for every flat map flatten_stacks produces and every subset of its
\* keys, aggregate_instances returns without raising, and its groups expand to
\* exactly the selected pairs, each once, each with its original overrides.
C2_AggregateRoundTrips ==
    fname = "aggregate_instances" =>
        /\ ~fret.raised
        /\ RoundTrips(fret.value, Range(fargs.account_list), fargs.flat_stacks)

\* C3: added, removed, changed and unchanged are pairwise disjoint and their
\* union is the union of the keys of the old and the new map.
C3_DiffPartitions ==
    fname = "instance_diff" =>
        LET parts == <<fret.to_add, fret.to_delete, fret.to_update, fret.unchanged>>
        IN  /\ \A i, j \in 1..4 : i # j => parts[i] \cap parts[j] = {}
            /\ UNION Range(parts) = DOMAIN fargs.old_stacks \cup DOMAIN fargs.new_stacks
            /\ fret.to_add = {k \in DOMAIN fargs.new_stacks : k \notin DOMAIN fargs.old_stacks}
            /\ fret.to_delete = {k \in DOMAIN fargs.old_stacks : k \notin DOMAIN fargs.new_stacks}
            /\ \A k \in DOMAIN fargs.old_stacks \cap DOMAIN fargs.new_stacks :
                 /\ k \in fret.to_update <=> fargs.old_stacks[k] # fargs.new_stacks[k]
                 /\ k \in fret.unchanged <=> fargs.old_stacks[k] = fargs.new_stacks[k]

\* C3 witness: a diff in which all four sets are non-empty
C3_Witness ==
    /\ fname = "instance_diff"
    /\ fret.to_add # {}
    /\ fret.to_delete # {}
    /\ fret.to_update # {}
    /\ fret.unchanged # {}

\* an attribute is present in exactly one map, or in both with different values
AttributeDiffers(attribute, old_values, current_values) ==
    \/ (attribute \in DOMAIN old_values) # (attribute \in DOMAIN current_values)
    \/ /\ attribute \in DOMAIN old_values
       /\ attribute \in DOMAIN current_values
       /\ old_values[attribute] # current_values[attribute]

\* C8: change_requires_update is true exactly when some attribute of the list
\* differs between the maps; it is false for identical maps, and attributes
\* outside the list never affect the result.
C8_ChangeIffListedAttributeDiffers ==
    fname = "change_requires_update" =>
        /\ fret <=> \E i \in DOMAIN fargs.attributes :
                        AttributeDiffers(fargs.attributes[i], fargs.old_values,
                                         fargs.current_values)
        /\ fargs.old_values = fargs.current_values => ~fret

\* C8 witness: the maps differ only in an attribute outside the list, and the
\* answer is false
C8_Witness ==
    /\ fname = "change_requires_update"
    /\ fargs.attributes = <<"A">>
    /\ fargs.old_values = [A |-> 1, B |-> 2]
    /\ fargs.current_values = [A |-> 1, B |-> 3]
    /\ fret = FALSE

(***************************************************************************)
(* Helpers of the handlers                                                 *)
(***************************************************************************)
\* get_stack_from_arn: the stack name inside a CloudFormation stack ARN
get_stack_from_arn(arn) ==
    LET fields == SplitFrom(arn, ":", 5, 1, <<>>) IN
    IF Len(fields) # 6 THEN Raise(<<"ValueError", arn>>)
    ELSE LET resourcepart == fields[6] IN
         IF ":" \in Range(resourcepart)
         THEN IF Len(SplitOn(resourcepart, ":")) # 2
              THEN Raise(<<"ValueError", arn>>)
              ELSE Return(SplitOn(resourcepart, ":")[2])
         ELSE IF "/" \in Range(resourcepart)
         THEN Return(SplitOn(resourcepart, "/")[2])
         ELSE Return(resourcepart)

\* expand_tags: [{key: value}, ...] as [{'Key': key, 'Value': value}, ...]
expand_tags(tags) == [i \in DOMAIN tags |-> [Key |-> tags[i].key, Value |-> tags[i].value]]

\* expand_parameters: [{key: value}, ...] as
\* [{'ParameterKey': key, 'ParameterValue': value}, ...]
expand_parameters(params) ==
    [i \in DOMAIN params |->
        [ParameterKey |-> params[i].key, ParameterValue |-> params[i].value]]

\* the OperationPreferences a handler passes on (set_opsprefs)
OpsPrefsOf(props) ==
    IF "OperationPreferences" \in DOMAIN props
    THEN convert_ops_prefs(props.OperationPreferences)
    ELSE Return(<<>>)

(***************************************************************************)
(* Events                                                                  *)
(***************************************************************************)
EmptyId == <<>>
NoneId == <<"N", "O", "N", "E">>
SetId == <<"s", ":", "u">>
OtherId == <<"t", ":", "v">>
StackArn == <<"a", ":", "p", ":", "c", ":", "r", ":", "1", ":", "s", "/", "p", "/", "g">>
LogicalId == <<"L">>

MinimalProps == [TemplateURL |-> "t1"]
FullProps ==
    [TemplateURL |-> "t2",
     StackSetName |-> <<"n">>,
     StackSetDescription |-> "d1",
     OperationPreferences |->
         [MaxConcurrentCount |-> <<"1", "0">>, RegionOrder |-> <<RegE>>, Other |-> "x"],
     Tags |-> <<[key |-> "team", value |-> "ops"]>>,
     Capabilities |-> <<"CAPABILITY_IAM">>,
     AdministrationRoleARN |-> "admin",
     ExecutionRoleName |-> "exec",
     Parameters |-> <<[key |-> "Size", value |-> "1"]>>]
\* a preference that int() cannot convert
BadPrefsProps ==
    [TemplateURL |-> "t1", OperationPreferences |-> [MaxConcurrentCount |-> <<"x">>]]

\* FullProps with another description, and without one
Redescribed == [FullProps EXCEPT !.StackSetDescription = "d2"]
Undescribed == [name \in DOMAIN FullProps \ {"StackSetDescription"} |-> FullProps[name]]

\* props with or without a StackInstances list
WithInstances(props, lists) ==
    {props} \cup {[StackInstances |-> si] @@ props : si \in lists}

\* the cells of the StackInstances of props (none when it has no list)
PropsCells(props) ==
    IF "StackInstances" \in DOMAIN props THEN TotalCells(props.StackInstances) ELSE 0

\* the property maps the events carry: MinimalProps with StackInstances of at
\* most n cells, FullProps and BadPrefsProps with StackInstances of at most
\* one cell, and the two variants of FullProps without StackInstances
PropsTable(cells) ==
    [n \in 0..cells |->
        WithInstances(MinimalProps, StackInstanceLists(n, n))
        \cup (IF n = 0 THEN WithInstances(FullProps, StackInstanceLists(0, 0))
              ELSE WithInstances(FullProps, StackInstanceLists(1, 1)))
        \cup (IF n = 0 THEN {BadPrefsProps}
              ELSE WithInstances(BadPrefsProps, StackInstanceLists(1, 1)))
        \cup {Redescribed, Undescribed}]

\* create also meets instances whose first account or region is ''
CreateEvents(cells) ==
    {[RequestType |-> "Create", StackId |-> StackArn, LogicalResourceId |-> LogicalId,
      ResourceProperties |-> p] :
        p \in WithInstances(MinimalProps,
                  StackInstanceListsOver({Acct1, EmptyId}, {RegE, EmptyId}, cells, cells))
              \cup PropsTable(cells)[cells]}

DeleteEvents(cells) ==
    {[RequestType |-> "Delete", StackId |-> StackArn, LogicalResourceId |-> LogicalId,
      PhysicalResourceId |-> id, ResourceProperties |-> p] :
        id \in {SetId, NoneId}, p \in PropsTable(cells)[cells]}

\* old and new properties whose StackInstances produce `cells` cells together
UpdateEvents(cells) ==
    LET table == PropsTable(cells) IN
    UNION {{[RequestType |-> "Update", StackId |-> StackArn,
             LogicalResourceId |-> LogicalId, PhysicalResourceId |-> SetId,
             OldResourceProperties |-> old, ResourceProperties |-> new] :
                new \in table[cells - PropsCells(old)]} :
               old \in table[cells]}

\* updates of a resource with another physical id: MinimalProps and FullProps
\* with or without one instance group for one account in one region
OtherIdProps ==
    LET lists == StackInstanceListsOver({Acct2}, {RegE}, 1, 1)
    IN  WithInstances(MinimalProps, lists) \cup WithInstances(FullProps, lists)

OtherIdEvents ==
    {[RequestType |-> "Update", StackId |-> StackArn,
      LogicalResourceId |-> LogicalId, PhysicalResourceId |-> OtherId,
      OldResourceProperties |-> old, ResourceProperties |-> new] :
        old \in OtherIdProps, new \in OtherIdProps}

Events(cells) ==
    CreateEvents(cells) \cup UpdateEvents(cells) \cup OtherIdEvents \cup DeleteEvents(cells)

(***************************************************************************)
(* The CloudFormation service                                              *)
(***************************************************************************)
InProgress == "OperationInProgressException"
ErrorCodes ==
    {InProgress, "StackSetNotFoundException", "StackSetNotEmptyException",
     "NameAlreadyExistsException", "OtherError"}

\* what a stack-instance call can answer: a response, or a ClientError code
InstanceAnswers ==
    {"200", InProgress, "StackSetNotFoundException", "OtherError"}

\* what update_stack_set and delete_stack_set can answer
StackSetAnswers ==
    {"200", "non200", InProgress, "StackSetNotEmptyException", "OtherError"}

\* what create_stack_set can answer
CreateStackSetAnswers == {"200", "non200", "NameAlreadyExistsException", "OtherError"}

(***************************************************************************)
(* The retry loops: what one iteration does with the service's answer when *)
(* this_try in-progress answers came before it.                            *)
(*   "continue"  sleep and try again                                       *)
(*   "response"  return the response (or set_id)                           *)
(*   "string"    return a failure message                                  *)
(*   "raised"    raise an exception                                        *)
(***************************************************************************)
\* mutant: the budget test is this_try > retries
launch_stacks_off_by_one(answer, tries) ==
    IF answer \notin ErrorCodes THEN "response"
    ELSE IF answer = InProgress
    THEN IF tries + 1 > Retries THEN "string" ELSE "continue"
    ELSE "raised"

launch_stacks_iteration(answer, tries) ==
    IF answer \notin ErrorCodes THEN "response"
    ELSE IF answer = InProgress
    THEN IF tries + 1 = Retries THEN "string" ELSE "continue"
    ELSE IF answer = "StackSetNotFoundException" THEN "raised"
    ELSE "raised"

\* mutant: a StackSet that is not found is waited for like an operation in progress
update_stacks_retry_not_found(answer, tries) ==
    IF answer \notin ErrorCodes THEN "response"
    ELSE IF answer \in {InProgress, "StackSetNotFoundException"}
    THEN IF tries + 1 = Retries THEN "string" ELSE "continue"
    ELSE "raised"

update_stacks_iteration(answer, tries) ==
    IF answer \notin ErrorCodes THEN "response"
    ELSE IF answer = InProgress
    THEN IF tries + 1 = Retries THEN "string" ELSE "continue"
    ELSE IF answer = "StackSetNotFoundException" THEN "raised"
    ELSE "raised"

\* mutant: a used-up retry budget is raised, as in update_stack_set
delete_stacks_raise_exhausted(answer, tries) ==
    IF answer \notin ErrorCodes THEN "response"
    ELSE IF answer = InProgress
    THEN IF tries + 1 = Retries THEN "raised" ELSE "continue"
    ELSE "string"

\* mutant: an unexpected error is raised, as in the other wrappers
delete_stacks_raise_unexpected(answer, tries) ==
    IF answer \notin ErrorCodes THEN "response"
    ELSE IF answer = InProgress
    THEN IF tries + 1 = Retries THEN "string" ELSE "continue"
    ELSE IF answer = "StackSetNotFoundException" THEN "string"
    ELSE "raised"

delete_stacks_iteration(answer, tries) ==
    IF answer \notin ErrorCodes THEN "response"
    ELSE IF answer = InProgress
    THEN IF tries + 1 = Retries THEN "string" ELSE "continue"
    ELSE IF answer = "StackSetNotFoundException" THEN "string"
    ELSE "string"

update_stack_set_iteration(answer, tries) ==
    IF answer \notin ErrorCodes
    THEN IF answer = "200" THEN "response" ELSE "raised"
    ELSE IF answer = InProgress
    THEN IF tries + 1 = Retries THEN "raised" ELSE "continue"
    ELSE IF answer = "StackSetNotEmptyException" THEN "raised"
    ELSE "raised"

\* mutant: a StackSet that still has stacks is left alone without an error
delete_stack_set_tolerates_not_empty(answer, tries) ==
    IF answer \notin ErrorCodes
    THEN IF answer = "200" THEN "response" ELSE "raised"
    ELSE IF answer = InProgress
    THEN IF tries + 1 = Retries THEN "raised" ELSE "continue"
    ELSE IF answer = "StackSetNotEmptyException" THEN "response"
    ELSE "raised"

delete_stack_set_iteration(answer, tries) ==
    IF answer \notin ErrorCodes
    THEN IF answer = "200" THEN "response" ELSE "raised"
    ELSE IF answer = InProgress
    THEN IF tries + 1 = Retries THEN "raised" ELSE "continue"
    ELSE IF answer = "StackSetNotEmptyException" THEN "raised"
    ELSE "raised"

(***************************************************************************)
(* Spec: the handlers                                                      *)
(***************************************************************************)
Init ==
    /\ fname = "none"
    /\ fargs = <<>>
    /\ fret = "none"
    /\ event \in Events(MaxEventCells)
    /\ pc = "start"
    /\ set_id = <<>>
    /\ todo = <<>>
    /\ this_try = 0
    /\ ncalls = 0
    /\ slept = FALSE
    /\ lastResp = "none"
    /\ loop = [name |-> "none", ended |-> "none"]
    /\ calls = <<>>
    /\ outcome = [kind |-> "running"]

\* no retry loop is being run
NoLoop ==
    /\ this_try' = 0
    /\ ncalls' = 0
    /\ slept' = FALSE
    /\ lastResp' = "none"
    /\ loop' = [name |-> "none", ended |-> "none"]

\* a wrapper is entered: its counters are set up and its request is noted
EnterLoop(name, request) ==
    /\ this_try' = 0
    /\ ncalls' = 0
    /\ slept' = FALSE
    /\ lastResp' = "none"
    /\ loop' = [name |-> name, ended |-> "running"]
    /\ calls' = Append(calls, [ended |-> "running"] @@ request)

\* the handler ends with an exception, or returns
HandlerRaise(message) ==
    /\ pc' = "done"
    /\ outcome' = [kind |-> "raised", value |-> message]

\* mutant: the handler returns an empty physical resource id
HandlerReturnNothing(value) ==
    /\ pc' = "done"
    /\ outcome' = [kind |-> "returned", value |-> EmptyId]

HandlerReturn(value) ==
    /\ pc' = "done"
    /\ outcome' = [kind |-> "returned", value |-> value]

\* one iteration of a retry loop whose SDK call was answered `answer` and
\* whose code made `result` of it; a loop that returns goes back to returnPc
\* ("done" for the loop of delete, whose return ends the handler)
LoopIteration(answer, result, returnPc) ==
    /\ lastResp' = answer
    /\ IF result = "continue"
       THEN /\ this_try' = this_try + 1
            /\ ncalls' = ncalls + 1
            /\ slept' = TRUE
            /\ UNCHANGED <<loop, pc, calls, outcome>>
       ELSE /\ this_try' = 0
            /\ ncalls' = 0
            /\ slept' = FALSE
            /\ loop' = [loop EXCEPT !.ended = result]
            /\ calls' = [calls EXCEPT ![Len(calls)].ended =
                                          IF result = "raised" THEN "raised" ELSE "returned"]
            /\ IF result = "raised"
               THEN HandlerRaise(<<loop.name, answer>>)
               ELSE /\ pc' = returnPc
                    /\ outcome' = IF returnPc = "done"
                                  THEN [kind |-> "returned", value |-> "None"]
                                  ELSE outcome
    /\ UNCHANGED <<event, set_id, todo, fnvars>>

\* the requests of the wrappers
StackInstancesRequest(op, name, accts, regions, param_overrides, ops_prefs) ==
    [op |-> op, StackSetName |-> name, Accounts |-> accts, Regions |-> regions,
     ParameterOverrides |-> param_overrides, OperationPreferences |-> ops_prefs]

DeleteInstancesRequest(name, accts, regions, ops_prefs) ==
    [op |-> "delete_stack_instances", StackSetName |-> name, Accounts |-> accts,
     Regions |-> regions, OperationPreferences |-> ops_prefs, RetainStacks |-> FALSE]

(***************************************************************************)
(* create                                                                  *)
(***************************************************************************)
\* the default description of a StackSet
DefaultDescription(stack) == <<"This StackSet belongs to the CloudFormation stack", stack>>

PropOr(props, name, default) == IF name \in DOMAIN props THEN props[name] ELSE default

\* the create_stack_set request create builds from the event
CreateRequest(ev) ==
    LET props == ev.ResourceProperties
        stack == get_stack_from_arn(ev.StackId).value
    IN  [op |-> "create_stack_set",
         StackSetName |-> PropOr(props, "StackSetName",
                                 stack \o <<"-">> \o ev.LogicalResourceId),
         Description |-> PropOr(props, "StackSetDescription", DefaultDescription(stack)),
         TemplateURL |-> props.TemplateURL,
         Parameters |-> IF "Parameters" \in DOMAIN props
                        THEN expand_parameters(props.Parameters) ELSE <<>>,
         Capabilities |-> PropOr(props, "Capabilities", ""),
         Tags |-> IF "Tags" \in DOMAIN props THEN expand_tags(props.Tags) ELSE <<>>,
         AdministrationRoleARN |-> PropOr(props, "AdministrationRoleARN", ""),
         ExecutionRoleName |-> PropOr(props, "ExecutionRoleName", "")]

\* create up to and with create_stack_set: the parameters are collected, the
\* StackSet is created and the for-loop over StackInstances is set up
CreateStackSet ==
    /\ pc = "start"
    /\ event.RequestType = "Create"
    /\ LET props == event.ResourceProperties
           needsArn == "StackSetName" \notin DOMAIN props
                       \/ "StackSetDescription" \notin DOMAIN props
       IN  IF needsArn /\ get_stack_from_arn(event.StackId).raised
           THEN /\ HandlerRaise(get_stack_from_arn(event.StackId).value)
                /\ UNCHANGED <<set_id, todo, calls>>
           ELSE IF OpsPrefsOf(props).raised
           THEN /\ HandlerRaise(OpsPrefsOf(props).value)
                /\ UNCHANGED <<set_id, todo, calls>>
           ELSE IF "TemplateURL" \notin DOMAIN props
           THEN /\ HandlerRaise(<<"KeyError", "TemplateURL">>)
                /\ UNCHANGED <<set_id, todo, calls>>
           ELSE \E answer \in CreateStackSetAnswers :
                  IF answer # "200"
                  THEN /\ calls' = Append(calls, [ended |-> "raised"] @@ CreateRequest(event))
                       /\ HandlerRaise(<<"create_stack_set", answer>>)
                       /\ UNCHANGED <<set_id, todo>>
                  ELSE /\ calls' = Append(calls, [ended |-> "returned"] @@ CreateRequest(event))
                       /\ set_id' = SetId
                       /\ IF "StackInstances" \notin DOMAIN props
                          THEN /\ HandlerRaise(<<"KeyError", "StackInstances">>)
                               /\ todo' = todo
                          ELSE /\ todo' = props.StackInstances
                               /\ pc' = "create:for"
                               /\ outcome' = outcome
    /\ NoLoop
    /\ UNCHANGED <<event, fnvars>>

\* mutant: a group whose first account and first region are '' is launched
create_validation_launch_empty(instance) ==
    IF instance.Regions[1] # EmptyId /\ instance.Accounts[1] = EmptyId
    THEN Raise("You must specify at least one account with a list of regions.")
    ELSE IF instance.Regions[1] = EmptyId /\ instance.Accounts[1] # EmptyId
    THEN Raise("You must specify at least one region with a list of accounts.")
    ELSE Return("launch")

\* mutant: a group with a first region and no first account is skipped
create_validation_no_raise(instance) ==
    IF instance.Regions[1] # EmptyId /\ instance.Accounts[1] = EmptyId
    THEN Return("skip")
    ELSE IF instance.Regions[1] = EmptyId /\ instance.Accounts[1] # EmptyId
    THEN Raise("You must specify at least one region with a list of accounts.")
    ELSE IF instance.Regions[1] # EmptyId /\ instance.Accounts[1] # EmptyId
    THEN Return("launch")
    ELSE Return("skip")

\* the if/elif chain of create's for-loop: what is done with an instance
create_validation(instance) ==
    IF instance.Regions[1] # EmptyId /\ instance.Accounts[1] = EmptyId
    THEN Raise("You must specify at least one account with a list of regions.")
    ELSE IF instance.Regions[1] = EmptyId /\ instance.Accounts[1] # EmptyId
    THEN Raise("You must specify at least one region with a list of accounts.")
    ELSE IF instance.Regions[1] # EmptyId /\ instance.Accounts[1] # EmptyId
    THEN Return("launch")
    ELSE Return("skip")

\* the head of create's for-loop: the next instance is validated and launched
\* or skipped; after the last one create returns the physical resource id
CreateFor ==
    /\ pc = "create:for"
    /\ IF todo = <<>>
       THEN /\ HandlerReturn(set_id)
            /\ NoLoop
            /\ UNCHANGED <<todo, calls>>
       ELSE LET instance == Head(todo)
                param_overrides == expand_parameters(InstanceOverrides(instance))
                validated == create_validation(instance)
            IN  IF validated.raised
                THEN /\ HandlerRaise(validated.value)
                     /\ NoLoop
                     /\ UNCHANGED <<todo, calls>>
                ELSE IF validated.value = "launch"
                THEN /\ EnterLoop("launch_stacks",
                            StackInstancesRequest("create_stack_instances", set_id,
                                instance.Accounts, instance.Regions, param_overrides,
                                OpsPrefsOf(event.ResourceProperties).value))
                     /\ todo' = Tail(todo)
                     /\ pc' = "create:launch"
                     /\ outcome' = outcome
                ELSE /\ todo' = Tail(todo)
                     /\ NoLoop
                     /\ UNCHANGED <<pc, calls, outcome>>
    /\ UNCHANGED <<event, set_id, fnvars>>

\* one iteration of the retry loop of launch_stacks
LaunchStacksCall ==
    /\ pc \in {"create:launch", "update:launch"}
    /\ \E answer \in InstanceAnswers :
         LoopIteration(answer, launch_stacks_iteration(answer, this_try),
                       IF pc = "create:launch" THEN "create:for" ELSE "update:add")

(***************************************************************************)
(* update                                                                  *)
(***************************************************************************)
\* mutant: the description is spelled as in the properties
stack_set_attributes_spelled ==
    <<"TemplateURL", "Parameters", "Tags", "Capabilities", "StackSetDescription">>

\* the attributes whose change makes update call update_stack_set
stack_set_attributes ==
    <<"TemplateURL", "Parameters", "Tags", "Capabilities", "StackSetDecription">>

\* mutant: the StackSet is updated whether or not an attribute changed
stack_set_needs_update_always(ev) == TRUE

stack_set_needs_update(ev) ==
    change_requires_update(stack_set_attributes, ev.OldResourceProperties,
                           ev.ResourceProperties)

\* mutant: a property that is absent from the new properties gets its default
NewOrDefault(ev, name, default) ==
    IF name \in DOMAIN ev.ResourceProperties THEN ev.ResourceProperties[name]
    ELSE default

\* an optional property: the new value, else the old one, else the default
NewOldOr(ev, name, default) ==
    IF name \in DOMAIN ev.ResourceProperties THEN ev.ResourceProperties[name]
    ELSE IF name \in DOMAIN ev.OldResourceProperties THEN ev.OldResourceProperties[name]
    ELSE default

\* the update_stack_set request update builds from the event
UpdateRequest(ev) ==
    [op |-> "update_stack_set",
     StackSetName |-> ev.PhysicalResourceId,
     Description |-> NewOldOr(ev, "StackSetDescription",
                        DefaultDescription(get_stack_from_arn(ev.StackId).value)),
     TemplateURL |-> NewOldOr(ev, "TemplateURL", "none"),
     Parameters |-> expand_parameters(NewOldOr(ev, "Parameters", <<>>)),
     Capabilities |-> NewOldOr(ev, "Capabilities", <<>>),
     Tags |-> expand_tags(NewOldOr(ev, "Tags", <<>>)),
     OperationPreferences |-> OpsPrefsOf(ev.ResourceProperties).value]

\* update up to the call of update_stack_set: change detection, and the
\* parameters of the StackSet when it has to be updated
UpdateStart ==
    /\ pc = "start"
    /\ event.RequestType = "Update"
    /\ set_id' = event.PhysicalResourceId
    /\ IF OpsPrefsOf(event.ResourceProperties).raised
       THEN /\ HandlerRaise(OpsPrefsOf(event.ResourceProperties).value)
            /\ NoLoop
            /\ calls' = calls
       ELSE IF ~stack_set_needs_update(event)
       THEN /\ pc' = "update:diff"
            /\ NoLoop
            /\ UNCHANGED <<calls, outcome>>
       ELSE IF /\ "StackSetDescription" \notin DOMAIN event.ResourceProperties
               /\ "StackSetDescription" \notin DOMAIN event.OldResourceProperties
               /\ get_stack_from_arn(event.StackId).raised
       THEN /\ HandlerRaise(get_stack_from_arn(event.StackId).value)
            /\ NoLoop
            /\ calls' = calls
       ELSE IF /\ "TemplateURL" \notin DOMAIN event.ResourceProperties
               /\ "TemplateURL" \notin DOMAIN event.OldResourceProperties
       THEN /\ HandlerRaise("Template URL not found during update event")
            /\ NoLoop
            /\ calls' = calls
       ELSE /\ EnterLoop("update_stack_set", UpdateRequest(event))
            /\ pc' = "update:stack_set"
            /\ outcome' = outcome
    /\ UNCHANGED <<event, todo, fnvars>>

\* one iteration of the retry loop of update_stack_set
UpdateStackSetCall ==
    /\ pc = "update:stack_set"
    /\ \E answer \in StackSetAnswers :
         LoopIteration(answer, update_stack_set_iteration(answer, this_try), "update:diff")

\* the flat map of the StackInstances of props ([] when it has none)
FlatOf(props) ==
    IF "StackInstances" \in DOMAIN props THEN flatten_stacks(props.StackInstances)
    ELSE Return(<<>>)

new_stacks(ev) == FlatOf(ev.ResourceProperties).value
old_stacks(ev) == FlatOf(ev.OldResourceProperties).value

\* mutant: the stale instances are deleted first, then the new ones are
\* launched, then the changed ones are updated
BeginPhaseDeleteFirst(keys, flat_stacks, nextPc) ==
    LET old == old_stacks(event)
        new == new_stacks(event)
        phase == IF nextPc = "update:add"
                 THEN [keys |-> to_delete(old, new), flat |-> old, pc |-> "update:del"]
                 ELSE IF nextPc = "update:upd"
                 THEN [keys |-> to_add(old, new), flat |-> new, pc |-> "update:add"]
                 ELSE [keys |-> to_update(old, new), flat |-> new, pc |-> "update:upd"]
    IN  IF phase.keys = {}
        THEN todo' = <<>> /\ pc' = phase.pc /\ outcome' = outcome
        ELSE \E account_list \in Orders(phase.keys) :
               LET instances == aggregate_instances(account_list, phase.flat)
               IN  IF instances.raised
                   THEN HandlerRaise(instances.value) /\ todo' = <<>>
                   ELSE todo' = instances.value /\ pc' = phase.pc /\ outcome' = outcome

\* a phase of update begins: the keys are aggregated, in the order the list
\* of the set happens to have, into the groups its for-loop will visit
BeginPhase(keys, flat_stacks, nextPc) ==
    IF keys = {}
    THEN todo' = <<>> /\ pc' = nextPc /\ outcome' = outcome
    ELSE \E account_list \in Orders(keys) :
           LET instances == aggregate_instances(account_list, flat_stacks)
           IN  IF instances.raised
               THEN HandlerRaise(instances.value) /\ todo' = <<>>
               ELSE todo' = instances.value /\ pc' = nextPc /\ outcome' = outcome

\* both StackInstances lists are flattened and compared, and the instances
\* to add are aggregated
UpdateDiff ==
    /\ pc = "update:diff"
    /\ IF FlatOf(event.ResourceProperties).raised
       THEN HandlerRaise(FlatOf(event.ResourceProperties).value) /\ todo' = todo
       ELSE IF FlatOf(event.OldResourceProperties).raised
       THEN HandlerRaise(FlatOf(event.OldResourceProperties).value) /\ todo' = todo
       ELSE BeginPhase(to_add(old_stacks(event), new_stacks(event)), new_stacks(event),
                       "update:add")
    /\ NoLoop
    /\ UNCHANGED <<event, set_id, calls, fnvars>>

\* the head of the for-loop over add_instances; after the last one the
\* instances to delete are aggregated
UpdateAddFor ==
    /\ pc = "update:add"
    /\ IF todo # <<>>
       THEN LET instance == Head(todo) IN
            /\ EnterLoop("launch_stacks",
                   StackInstancesRequest("create_stack_instances", set_id,
                       instance.accounts, instance.regions,
                       expand_parameters(instance.overrides),
                       OpsPrefsOf(event.ResourceProperties).value))
            /\ todo' = Tail(todo)
            /\ pc' = "update:launch"
            /\ outcome' = outcome
       ELSE /\ BeginPhase(to_delete(old_stacks(event), new_stacks(event)),
                          old_stacks(event), "update:del")
            /\ NoLoop
            /\ calls' = calls
    /\ UNCHANGED <<event, set_id, fnvars>>

\* the head of the for-loop over delete_instances; after the last one the
\* instances whose overrides changed are aggregated
UpdateDelFor ==
    /\ pc = "update:del"
    /\ IF todo # <<>>
       THEN LET instance == Head(todo) IN
            /\ EnterLoop("delete_stacks",
                   DeleteInstancesRequest(set_id, instance.accounts, instance.regions,
                       OpsPrefsOf(event.ResourceProperties).value))
            /\ todo' = Tail(todo)
            /\ pc' = "update:delete"
            /\ outcome' = outcome
       ELSE /\ BeginPhase(to_update(old_stacks(event), new_stacks(event)),
                          new_stacks(event), "update:upd")
            /\ NoLoop
            /\ calls' = calls
    /\ UNCHANGED <<event, set_id, fnvars>>

\* the head of the for-loop over update_instances: update_stacks cuts the
\* StackSet name out of set_id and enters its retry loop; after the last
\* instance update returns the physical resource id
UpdateUpdFor ==
    /\ pc = "update:upd"
    /\ IF todo # <<>>
       THEN LET instance == Head(todo)
                name_uid == SplitOn(set_id, ":")
            IN  IF Len(name_uid) # 2
                THEN /\ HandlerRaise(<<"ValueError", set_id>>)
                     /\ NoLoop
                     /\ UNCHANGED <<todo, calls>>
                ELSE /\ EnterLoop("update_stacks",
                            StackInstancesRequest("update_stack_instances", name_uid[1],
                                instance.accounts, instance.regions,
                                expand_parameters(instance.overrides),
                                OpsPrefsOf(event.ResourceProperties).value))
                     /\ todo' = Tail(todo)
                     /\ pc' = "update:update"
                     /\ outcome' = outcome
       ELSE /\ HandlerReturn(set_id)
            /\ NoLoop
            /\ UNCHANGED <<todo, calls>>
    /\ UNCHANGED <<event, set_id, fnvars>>

\* one iteration of the retry loop of update_stacks
UpdateStacksCall ==
    /\ pc = "update:update"
    /\ \E answer \in InstanceAnswers :
         LoopIteration(answer, update_stacks_iteration(answer, this_try), "update:upd")

(***************************************************************************)
(* delete                                                                  *)
(***************************************************************************)
\* mutant: the 'NONE' test is missing
delete_short_circuits_never(physical_id) == FALSE

\* set_id == 'NONE': a rollback from a failed create
delete_short_circuits(physical_id) == physical_id = NoneId

\* mutant: the for-loop over StackInstances is skipped
delete_instances_none(props) == <<>>

\* the instance groups delete tears down, in declaration order
delete_instances(props) ==
    IF "StackInstances" \in DOMAIN props THEN props.StackInstances ELSE <<>>

\* delete up to its for-loop
DeleteStart ==
    /\ pc = "start"
    /\ event.RequestType = "Delete"
    /\ set_id' = event.PhysicalResourceId
    /\ IF delete_short_circuits(event.PhysicalResourceId)
       THEN HandlerReturn("None") /\ todo' = todo
       ELSE IF /\ "StackInstances" \in DOMAIN event.ResourceProperties
               /\ OpsPrefsOf(event.ResourceProperties).raised
       THEN HandlerRaise(OpsPrefsOf(event.ResourceProperties).value) /\ todo' = todo
       ELSE /\ todo' = delete_instances(event.ResourceProperties)
            /\ pc' = "delete:for"
            /\ outcome' = outcome
    /\ NoLoop
    /\ UNCHANGED <<event, calls, fnvars>>

\* the head of delete's for-loop; after the last instance the retry loop
\* around delete_stack_set is entered
DeleteFor ==
    /\ pc = "delete:for"
    /\ IF todo # <<>>
       THEN LET instance == Head(todo) IN
            /\ EnterLoop("delete_stacks",
                   DeleteInstancesRequest(set_id, instance.Accounts, instance.Regions,
                       OpsPrefsOf(event.ResourceProperties).value))
            /\ todo' = Tail(todo)
            /\ pc' = "delete:delete"
       ELSE /\ EnterLoop("delete_stack_set",
                   [op |-> "delete_stack_set", StackSetName |-> set_id])
            /\ todo' = todo
            /\ pc' = "delete:stack_set"
    /\ UNCHANGED <<event, set_id, outcome, fnvars>>

\* one iteration of the retry loop of delete_stacks
DeleteStacksCall ==
    /\ pc \in {"update:delete", "delete:delete"}
    /\ \E answer \in InstanceAnswers :
         LoopIteration(answer, delete_stacks_iteration(answer, this_try),
                       IF pc = "update:delete" THEN "update:del" ELSE "delete:for")

\* one iteration of the retry loop around delete_stack_set; a 200 ends delete
DeleteStackSetCall ==
    /\ pc = "delete:stack_set"
    /\ \E answer \in StackSetAnswers :
         LoopIteration(answer, delete_stack_set_iteration(answer, this_try), "done")

Next ==
    \/ CreateStackSet
    \/ CreateFor
    \/ LaunchStacksCall
    \/ UpdateStart
    \/ UpdateStackSetCall
    \/ UpdateDiff
    \/ UpdateAddFor
    \/ UpdateDelFor
    \/ UpdateUpdFor
    \/ UpdateStacksCall
    \/ DeleteStart
    \/ DeleteFor
    \/ DeleteStacksCall
    \/ DeleteStackSetCall

Spec == Init /\ [][Next]_vars

(***************************************************************************)
(* Claims about the retry loops and the delete handler (checked under      *)
(* Spec).                                                                  *)
(***************************************************************************)
\* a retry loop is being run
InLoop == loop.ended = "running"

\* a retry loop has just ended
LoopEnded == loop.ended \in {"response", "string", "raised"}

\* C4: a retry loop makes min(n, 20) SDK calls when the service needs n
\* attempts.  While it runs, every answer so far was "in progress" and fewer
\* than 20 calls were made; the step that ends it makes call number
\* ncalls + 1, which is at most 20, and is exactly 20 when that call too was
\* answered "in progress"; every other step of the loop adds one call.
C4_RetryLoopCalls ==
    [][/\ InLoop => ncalls = this_try /\ ncalls < Retries
       /\ (~InLoop /\ InLoop') => ncalls' = 0
       /\ (InLoop /\ InLoop') =>
              /\ lastResp' = InProgress
              /\ ncalls' = ncalls + 1
              /\ ncalls' < Retries
              /\ loop' = loop
       /\ (InLoop /\ ~InLoop') =>
              /\ LoopEnded'
              /\ ncalls + 1 <= Retries
              /\ lastResp' = InProgress => ncalls + 1 = Retries]_vars

\* C4 witness: the loop around delete_stack_set ended on "in progress", that
\* is at its 20th call
C4_Witness ==
    /\ loop.name = "delete_stack_set"
    /\ LoopEnded
    /\ lastResp = InProgress

\* C5: when launch_stacks, update_stacks or update_stack_set has used up its
\* 20 attempts, an exception is raised and the handler ends in failure.
C5_ExhaustionIsFatal ==
    (/\ loop.name \in {"launch_stacks", "update_stacks", "update_stack_set"}
     /\ LoopEnded
     /\ lastResp = InProgress)
        => (loop.ended = "raised" /\ outcome.kind = "raised")

\* the SDK error codes other than "operation in progress"
OtherErrorCodes == ErrorCodes \ {InProgress}

\* C6 as stated: an SDK error other than "in progress" is raised, except
\* StackSet-not-found inside delete_stacks, which is returned as a string.
C6_OnlyNotFoundIsReturned ==
    (LoopEnded /\ lastResp \in OtherErrorCodes) =>
        IF loop.name = "delete_stacks" /\ lastResp = "StackSetNotFoundException"
        THEN loop.ended = "string" /\ outcome.kind = "running"
        ELSE loop.ended = "raised" /\ outcome.kind = "raised"

\* C6 amended: an SDK error other than "in progress" is raised by every retry
\* loop but delete_stacks, which returns every such error, StackSet-not-found
\* or any other code, as a string.
C6_DeleteStacksReturnsErrors ==
    (LoopEnded /\ lastResp \in OtherErrorCodes) =>
        IF loop.name = "delete_stacks"
        THEN loop.ended = "string" /\ outcome.kind = "running"
        ELSE loop.ended = "raised" /\ outcome.kind = "raised"

\* C6 witness: delete_stacks returned an unexpected SDK error as a string
C6_Witness ==
    /\ loop.name = "delete_stacks"
    /\ lastResp = "OtherError"
    /\ loop.ended = "string"
    /\ outcome.kind = "running"

\* C7: a retry loop goes on only after "operation in progress": any other
\* answer ends it in the same iteration, without a sleep, and no SDK call is
\* made for it afterwards (calls are made only while a loop runs, and a loop
\* is entered only for a new request).
C7_RetryOnlyInProgress ==
    [][/\ (InLoop /\ InLoop') => lastResp' = InProgress /\ slept'
       /\ (InLoop /\ lastResp' # InProgress) =>
              /\ LoopEnded'
              /\ ~slept'
              /\ ncalls' = 0
              /\ Len(calls') = Len(calls)
       /\ (~InLoop /\ InLoop') =>
              /\ Len(calls') = Len(calls) + 1
              /\ ncalls' = 0
              /\ ~slept'
       /\ (~InLoop /\ ~InLoop') => ncalls' = 0 /\ ~slept']_vars

\* C7 witness: launch_stacks was ended by a StackSet-not-found error
C7_Witness ==
    /\ loop.name = "launch_stacks"
    /\ LoopEnded
    /\ lastResp = "StackSetNotFoundException"

\* the instance groups a delete event declares
DeclaredGroups ==
    IF "StackInstances" \in DOMAIN event.ResourceProperties
    THEN event.ResourceProperties.StackInstances
    ELSE <<>>

\* C9: in a delete for a physical id other than 'NONE', delete_stack_set is
\* requested only after delete_stacks was called, and has returned, for every
\* declared instance group, in declaration order.
C9_TeardownBeforeStackSet ==
    (event.RequestType = "Delete" /\ event.PhysicalResourceId # NoneId) =>
        /\ \A i \in DOMAIN calls :
             calls[i].op = "delete_stack_set" =>
                 /\ i = Len(DeclaredGroups) + 1
                 /\ \A j \in 1..Len(DeclaredGroups) :
                      /\ calls[j].op = "delete_stack_instances"
                      /\ calls[j].StackSetName = event.PhysicalResourceId
                      /\ calls[j].Accounts = DeclaredGroups[j].Accounts
                      /\ calls[j].Regions = DeclaredGroups[j].Regions
                      /\ calls[j].ended = "returned"
        /\ (pc = "done" /\ outcome.kind = "returned") =>
               (calls # <<>> /\ calls[Len(calls)].op = "delete_stack_set")

\* C9 witness: two declared groups were torn down and delete_stack_set called
C9_Witness ==
    /\ event.RequestType = "Delete"
    /\ Len(DeclaredGroups) = 2
    /\ Len(calls) = 3
    /\ calls[3].op = "delete_stack_set"

\* C10: a delete whose PhysicalResourceId is 'NONE' returns without error and
\* makes no SDK call, whatever its ResourceProperties contain.
C10_NoneIsNoOp ==
    (event.RequestType = "Delete" /\ event.PhysicalResourceId = NoneId) =>
        /\ calls = <<>>
        /\ ~InLoop
        /\ pc \in {"start", "done"}
        /\ pc = "done" => outcome = [kind |-> "returned", value |-> "None"]

\* C10 witness: such a delete has returned although its properties declare
\* an instance group and preferences that cannot be converted
C10_Witness ==
    /\ event.RequestType = "Delete"
    /\ event.PhysicalResourceId = NoneId
    /\ "StackInstances" \in DOMAIN event.ResourceProperties
    /\ event.ResourceProperties.StackInstances # <<>>
    /\ OpsPrefsOf(event.ResourceProperties).raised
    /\ pc = "done"

(***************************************************************************)
(* Claims about the create handler (checked under Spec).                   *)
(***************************************************************************)
\* a declared group whose first account and first region are both non-empty
IsLaunchable(instance) ==
    instance.Accounts[1] # EmptyId /\ instance.Regions[1] # EmptyId

\* a declared group with a first region and no first account, or the reverse
IsInvalid(instance) ==
    (instance.Accounts[1] = EmptyId) # (instance.Regions[1] = EmptyId)

\* the launchable groups among the first n declared ones, in declaration order
LaunchableGroups(n) == SelectSeq(SubSeq(DeclaredGroups, 1, n), IsLaunchable)

\* calls[i] is the create_stack_instances request for the group `instance`
IsLaunchOf(i, instance) ==
    /\ calls[i].op = "create_stack_instances"
    /\ calls[i].StackSetName = SetId
    /\ calls[i].Accounts = instance.Accounts
    /\ calls[i].Regions = instance.Regions

\* C11: create calls create_stack_set exactly once, before every
\* create_stack_instances; when it fails the handler raises and nothing is
\* launched; when it succeeds the launches are those of the declared groups
\* with a non-empty first account and first region, in declaration order and
\* once each, with the new StackSetId, and all of them once create has returned.
C11_CreateOrder ==
    event.RequestType = "Create" =>
        LET expected == LaunchableGroups(Len(DeclaredGroups)) IN
        /\ \A i \in DOMAIN calls : (calls[i].op = "create_stack_set") <=> (i = 1)
        /\ pc # "start" /\ outcome.kind # "raised" => calls # <<>>
        /\ (calls # <<>> /\ calls[1].ended = "raised") =>
               Len(calls) = 1 /\ outcome.kind = "raised"
        /\ Len(calls) > 1 => calls[1].ended = "returned" /\ set_id = SetId
        /\ Len(calls) <= 1 + Len(expected)
        /\ \A i \in 2..Len(calls) : IsLaunchOf(i, expected[i - 1])
        /\ outcome.kind = "returned" =>
               Len(calls) = 1 + Len(expected) /\ outcome.value = SetId

\* C11 witness: create returned after launching two declared groups
C11_Witness ==
    /\ event.RequestType = "Create"
    /\ outcome.kind = "returned"
    /\ Len(calls) = 3
    /\ Len(DeclaredGroups) = 2

(***************************************************************************)
(* Claims about the update handler (checked under Spec).                   *)
(***************************************************************************)
\* a request with this operation has been made
Called(op) == \E i \in DOMAIN calls : calls[i].op = op

\* an attribute of the fixed list differs between the old and new properties
StackSetAttributeDiffers ==
    \E i \in DOMAIN stack_set_attributes :
        AttributeDiffers(stack_set_attributes[i], event.OldResourceProperties,
                         event.ResourceProperties)

\* update has returned
UpdateReturned ==
    event.RequestType = "Update" /\ pc = "done" /\ outcome.kind = "returned"

\* C12: update calls update_stack_set only if an attribute of the fixed list
\* differs between OldResourceProperties and ResourceProperties; when none
\* differs there is no update_stack_set call and the stack-instance diff is
\* still evaluated and acted on: an update that returned has made a request
\* for each non-empty part of the diff, and none for an empty one.
C12_UpdateStackSetOnlyOnChange ==
    event.RequestType = "Update" =>
        /\ Called("update_stack_set") => StackSetAttributeDiffers
        /\ pc = "update:stack_set" => StackSetAttributeDiffers
        /\ (~StackSetAttributeDiffers /\ UpdateReturned) =>
               LET old == old_stacks(event)
                   new == new_stacks(event)
               IN  /\ Called("create_stack_instances") <=> to_add(old, new) # {}
                   /\ Called("delete_stack_instances") <=> to_delete(old, new) # {}
                   /\ Called("update_stack_instances") <=> to_update(old, new) # {}

\* C12 witness: no listed attribute differs and update has returned after
\* launching and deleting stack instances
C12_Witness ==
    /\ UpdateReturned
    /\ ~StackSetAttributeDiffers
    /\ Called("create_stack_instances")
    /\ Called("delete_stack_instances")

\* request i is for the (account, region) pair of the flat-map key `instance`
Covers(i, instance) ==
    /\ Split(instance)[1] \in Range(calls[i].Accounts)
    /\ Split(instance)[2] \in Range(calls[i].Regions)

\* the requests with operation op that cover the pair of `instance`
RequestsFor(op, instance) ==
    {i \in DOMAIN calls : calls[i].op = op /\ Covers(i, instance)}

\* the number of stack-instance requests of each kind that cover `instance`
RequestCounts(instance) ==
    <<Cardinality(RequestsFor("create_stack_instances", instance)),
      Cardinality(RequestsFor("delete_stack_instances", instance)),
      Cardinality(RequestsFor("update_stack_instances", instance))>>

\* both declarations of the event flatten without duplicates
FlattensCleanly ==
    /\ ~FlatOf(event.ResourceProperties).raised
    /\ ~FlatOf(event.OldResourceProperties).raised

\* C13: when update has returned for declarations that flatten without
\* duplicates, a pair only in the new map is covered by exactly one
\* create_stack_instances request, a pair only in the old map by exactly one
\* delete_stack_instances request, a pair in both with different overrides by
\* exactly one update_stack_instances request that carries the new overrides,
\* and a pair in both with equal overrides by no request.
C13_UpdateCoversDiff ==
    (UpdateReturned /\ FlattensCleanly) =>
        LET old == old_stacks(event)
            new == new_stacks(event)
        IN  /\ \A instance \in DOMAIN new \ DOMAIN old :
                   RequestCounts(instance) = <<1, 0, 0>>
            /\ \A instance \in DOMAIN old \ DOMAIN new :
                   RequestCounts(instance) = <<0, 1, 0>>
            /\ \A instance \in DOMAIN old \cap DOMAIN new :
                   IF old[instance] = new[instance]
                   THEN RequestCounts(instance) = <<0, 0, 0>>
                   ELSE /\ RequestCounts(instance) = <<0, 0, 1>>
                        /\ \A i \in RequestsFor("update_stack_instances", instance) :
                               calls[i].ParameterOverrides =
                                   expand_parameters(new[instance])

\* C13 witness: update has returned after an update_stack_instances request
\* for a pair whose overrides changed
C13_Witness ==
    /\ UpdateReturned
    /\ FlattensCleanly
    /\ \E instance \in DOMAIN old_stacks(event) \cap DOMAIN new_stacks(event) :
           /\ old_stacks(event)[instance] # new_stacks(event)[instance]
           /\ RequestsFor("update_stack_instances", instance) # {}

(***************************************************************************)
(* Further claims about the helper functions (checked under SpecFn).       *)
(***************************************************************************)
\* the accounts of the keys in account_list
AccountsOf(account_list) == {Split(account_list[i])[1] : i \in DOMAIN account_list}

\* C14: in the result of aggregate_instances every account is in exactly one
\* group, and no two groups have both the same set of regions and the same
\* overrides, whatever order the keys were listed in.
C14_AggregateMergesEqualGroups ==
    (fname = "aggregate_instances" /\ ~fret.raised) =>
        LET groups == fret.value IN
        /\ \A account \in AccountsOf(fargs.account_list) :
               Cardinality({i \in DOMAIN groups :
                                account \in Range(groups[i].accounts)}) = 1
        /\ \A i, j \in DOMAIN groups :
               (/\ Range(groups[i].regions) = Range(groups[j].regions)
                /\ groups[i].overrides = groups[j].overrides) => i = j

(***************************************************************************)
(* Further claims about the handlers (checked under Spec).                 *)
(***************************************************************************)
\* a delete that tears something down
IsTeardown == event.RequestType = "Delete" /\ event.PhysicalResourceId # NoneId

\* C15: in delete, whatever delete_stacks meets for a group (budget used up,
\* StackSet not found, any other SDK error) the handler is not aborted: it is
\* back at the head of its for-loop with the remaining groups still to do,
\* from there it requests the teardown of the next group or, after the last
\* one, delete_stack_set, and it never ends after a teardown request without
\* having requested delete_stack_set.
C15_TeardownFailureIsReported ==
    /\ [](IsTeardown =>
            /\ (loop.name = "delete_stacks" /\ LoopEnded) =>
                   /\ loop.ended \in {"response", "string"}
                   /\ outcome.kind = "running"
                   /\ pc = "delete:for"
                   /\ todo = SubSeq(DeclaredGroups, Len(calls) + 1, Len(DeclaredGroups))
            /\ \A i \in DOMAIN calls :
                   calls[i].op = "delete_stack_instances" => calls[i].ended # "raised"
            /\ (pc = "done" /\ calls # <<>>) =>
                   /\ Len(calls) = Len(DeclaredGroups) + 1
                   /\ calls[Len(calls)].op = "delete_stack_set")
    /\ [][(IsTeardown /\ pc = "delete:for") =>
            /\ Len(calls') = Len(calls) + 1
            /\ calls'[Len(calls')].op =
                   IF todo = <<>> THEN "delete_stack_set" ELSE "delete_stack_instances"
            /\ calls'[Len(calls')].ended = "running"]_vars

\* C15 witness: delete_stacks used up its retry budget for the first of two
\* groups and the handler is at the head of its for-loop with the second
C15_Witness ==
    /\ IsTeardown
    /\ loop.name = "delete_stacks"
    /\ loop.ended = "string"
    /\ lastResp = InProgress
    /\ pc = "delete:for"
    /\ Len(todo) = 1
    /\ Len(DeclaredGroups) = 2

(***************************************************************************)
(* Further claims about flatten_stacks (checked under SpecFn).             *)
(***************************************************************************)
\* the overrides a specification declares
DeclaredOverrides(instance) ==
    IF "ParameterOverrides" \in DOMAIN instance THEN instance.ParameterOverrides ELSE <<>>

\* the keys of the Accounts x Regions product of a specification
ProductKeys(instance) ==
    {FormatTuple(a, r) : a \in Range(instance.Accounts), r \in Range(instance.Regions)}

\* C16: when flatten_stacks does not raise, the keys of its result are the
\* union over the specifications of Accounts x Regions, and each key maps to
\* the ParameterOverrides of the specification that produced it, or to an
\* empty list when that specification has none.
C16_FlattenIsProduct ==
    (fname = "flatten_stacks" /\ ~fret.raised) =>
        LET stackinstances == fargs.stackinstances IN
        /\ DOMAIN fret.value =
               UNION {ProductKeys(stackinstances[i]) : i \in DOMAIN stackinstances}
        /\ \A i \in DOMAIN stackinstances :
               \A instance \in ProductKeys(stackinstances[i]) :
                   fret.value[instance] = DeclaredOverrides(stackinstances[i])

\* C16 witness: two specifications, one with overrides and one without, were
\* flattened into at least three keys
C16_Witness ==
    /\ fname = "flatten_stacks"
    /\ ~fret.raised
    /\ Len(fargs.stackinstances) = 2
    /\ "ParameterOverrides" \in DOMAIN fargs.stackinstances[1]
    /\ "ParameterOverrides" \notin DOMAIN fargs.stackinstances[2]
    /\ Cardinality(DOMAIN fret.value) >= 3

\* the position of the first request with operation op (past the end of
\* calls when there is none) and of the last one (0 when there is none)
FirstCall(op) ==
    IF Called(op) THEN CHOOSE i \in DOMAIN calls :
                           calls[i].op = op /\ \A j \in 1..(i - 1) : calls[j].op # op
    ELSE Len(calls) + 1

LastCall(op) ==
    IF Called(op) THEN CHOOSE i \in DOMAIN calls :
                           calls[i].op = op /\ \A j \in (i + 1)..Len(calls) : calls[j].op # op
    ELSE 0

DifferingProperties ==
    {name \in DOMAIN event.OldResourceProperties \cup DOMAIN event.ResourceProperties :
         AttributeDiffers(name, event.OldResourceProperties, event.ResourceProperties)}

\* C18: an update in which StackSetDescription is the only property that
\* differs makes no update_stack_set call, and no call at all.
C18_DescriptionChangeIsIgnored ==
    (event.RequestType = "Update"
         /\ DifferingProperties = {"StackSetDescription"}) =>
        /\ ~Called("update_stack_set")
        /\ pc # "update:stack_set"
        /\ calls = <<>>
        /\ outcome.kind # "raised"
        /\ pc = "done" =>
               outcome = [kind |-> "returned", value |-> event.PhysicalResourceId]

\* C18 witness: such an update, with a changed description, has returned
C18_Witness ==
    /\ UpdateReturned
    /\ DifferingProperties = {"StackSetDescription"}
    /\ "StackSetDescription" \in DOMAIN event.ResourceProperties
    /\ "StackSetDescription" \in DOMAIN event.OldResourceProperties

\* the messages of create's validation
ValidationMessages ==
    {"You must specify at least one account with a list of regions.",
     "You must specify at least one region with a list of accounts."}

\* create was ended by the validation of an instance group
ValidationRaised ==
    /\ event.RequestType = "Create"
    /\ outcome.kind = "raised"
    /\ outcome.value \in ValidationMessages

\* the first declared group that is invalid (past the end when none is)
FirstInvalid ==
    IF \E k \in DOMAIN DeclaredGroups : IsInvalid(DeclaredGroups[k])
    THEN CHOOSE k \in DOMAIN DeclaredGroups :
             /\ IsInvalid(DeclaredGroups[k])
             /\ \A j \in 1..(k - 1) : ~IsInvalid(DeclaredGroups[j])
    ELSE Len(DeclaredGroups) + 1

\* C19: create validates a group only when its turn comes: when it raises for
\* a group with a first region and no first account (or the reverse), the
\* StackSet has been created, every launchable group declared before it has
\* been launched, a group whose first account and region are both empty has
\* caused no call, and nothing has been undone; a create that returns has met
\* no invalid group and has made no call for a group with both empty.
C19_ValidationAfterCreation ==
    event.RequestType = "Create" =>
        /\ ValidationRaised =>
               LET launched == LaunchableGroups(FirstInvalid - 1) IN
               /\ FirstInvalid <= Len(DeclaredGroups)
               /\ Len(calls) = 1 + Len(launched)
               /\ calls[1].op = "create_stack_set"
               /\ set_id = SetId
               /\ \A i \in DOMAIN calls : calls[i].ended = "returned"
               /\ \A i \in 2..Len(calls) : IsLaunchOf(i, launched[i - 1])
        /\ outcome.kind = "returned" =>
               /\ FirstInvalid = Len(DeclaredGroups) + 1
               /\ Len(calls) = 1 + Len(LaunchableGroups(Len(DeclaredGroups)))
        /\ \A i \in DOMAIN calls :
               /\ calls[i].op \in {"create_stack_set", "create_stack_instances"}
               /\ calls[i].op = "create_stack_instances" =>
                      calls[i].Accounts[1] # EmptyId /\ calls[i].Regions[1] # EmptyId

\* C19 witness: create raised for its second group after it had launched the
\* first one
C19_Witness ==
    /\ ValidationRaised
    /\ FirstInvalid = 2
    /\ Len(calls) = 2
    /\ calls[2].op = "create_stack_instances"

\* the optional attribute `name` was removed: the old properties have it and
\* the new ones do not
Removed(name) ==
    /\ name \in DOMAIN event.OldResourceProperties
    /\ name \notin DOMAIN event.ResourceProperties

\* C20: when update calls update_stack_set and StackSetDescription,
\* Capabilities, Tags or Parameters is absent from the new properties and
\* present in the old ones, the request carries the old value of that
\* attribute.
C20_RemovedAttributeKeepsOldValue ==
    (event.RequestType = "Update" /\ Called("update_stack_set")) =>
        LET request == calls[FirstCall("update_stack_set")]
            old == event.OldResourceProperties
        IN  /\ Removed("StackSetDescription") =>
                   request.Description = old.StackSetDescription
            /\ Removed("Capabilities") => request.Capabilities = old.Capabilities
            /\ Removed("Tags") => request.Tags = expand_tags(old.Tags)
            /\ Removed("Parameters") =>
                   request.Parameters = expand_parameters(old.Parameters)

\* C20 witness: update_stack_set was requested for new properties that lack
\* the four optional attributes the old ones have
C20_Witness ==
    /\ event.RequestType = "Update"
    /\ Called("update_stack_set")
    /\ Removed("StackSetDescription")
    /\ Removed("Capabilities")
    /\ Removed("Tags")
    /\ Removed("Parameters")
    /\ calls[1].Tags # <<>>

\* C21: the physical resource id is stable: a create that returns returns
\* the StackSetId create_stack_set answered with, and an update that returns
\* returns the PhysicalResourceId of its event, whatever properties changed
\* and whatever requests it made.
C21_PhysicalIdIsStable ==
    /\ (event.RequestType = "Create" /\ outcome.kind = "returned") =>
           /\ calls[1].op = "create_stack_set"
           /\ calls[1].ended = "returned"
           /\ outcome.value = SetId
           /\ outcome.value # calls[1].StackSetName
    /\ (event.RequestType = "Update" /\ outcome.kind = "returned") =>
           outcome.value = event.PhysicalResourceId
    /\ event.RequestType = "Update" =>
           (pc = "start" \/ set_id = event.PhysicalResourceId)

\* C21 witness: an update of the StackSet and of its stack instances, whose
\* update_stacks call cut the name out of the id, returned the id it received
C21_Witness ==
    /\ UpdateReturned
    /\ event.PhysicalResourceId = OtherId
    /\ Called("update_stack_set")
    /\ Called("update_stack_instances")
    /\ outcome.value = OtherId

\* the loop around delete_stack_set was ended by an answer with status 200
DeleteStackSetSucceeded ==
    /\ loop.name = "delete_stack_set"
    /\ LoopEnded
    /\ lastResp = "200"

\* C22: delete returns normally only when the physical id is 'NONE' or a
\* delete_stack_set call was answered with status 200; a delete that ends in
\* any other way (another status, 20 in-progress answers, StackSet not empty,
\* any other SDK error on delete_stack_set, preferences that cannot be
\* converted) ends with an exception.
C22_DeleteReturnsOnlyOnSuccess ==
    event.RequestType = "Delete" =>
        /\ outcome.kind = "returned" <=>
               (pc = "done" /\ (event.PhysicalResourceId = NoneId
                                    \/ DeleteStackSetSucceeded))
        /\ pc = "done" => outcome.kind \in {"returned", "raised"}
        /\ (loop.name = "delete_stack_set" /\ LoopEnded /\ lastResp # "200") =>
               /\ outcome.kind = "raised"
               /\ loop.ended = "raised"
               /\ lastResp \in {"non200", InProgress, "StackSetNotEmptyException",
                                "OtherError"}

\* C22 witness: delete raised on a delete_stack_set answer whose status was
\* not 200, after the teardown of a group
C22_Witness ==
    /\ event.RequestType = "Delete"
    /\ loop.name = "delete_stack_set"
    /\ lastResp = "non200"
    /\ outcome.kind = "raised"
    /\ Len(calls) = 2

(***************************************************************************)
(* Claims about convert_ops_prefs (checked under SpecFn).                  *)
(***************************************************************************)
\* the integer each numeric string of the inputs stands for
IntegerOf == (<<"1", "0">> :> 10) @@ (<<"-", "5">> :> (0 - 5)) @@ (<<"0", "7">> :> 7)

\* the keys convert_ops_prefs knows
KnownPrefs ==
    {"FailureToleranceCount", "FailureTolerancePercentage", "MaxConcurrentCount",
     "MaxConcurrentPercentage", "RegionOrder"}

\* C23: the map convert_ops_prefs returns has exactly the input keys among
\* FailureToleranceCount, FailureTolerancePercentage, MaxConcurrentCount,
\* MaxConcurrentPercentage and RegionOrder; the four numeric keys carry the
\* integer their input string stands for, RegionOrder its input value, and
\* every other input key is dropped.  It returns whenever every numeric
\* key's string stands for an integer.
C23_ConvertKeepsKnownKeys ==
    fname = "convert_ops_prefs" =>
        LET ops_prefs == fargs.ops_prefs IN
        /\ fret.raised <=>
               \E key \in DOMAIN ops_prefs \cap (KnownPrefs \ {"RegionOrder"}) :
                   ops_prefs[key] \notin DOMAIN IntegerOf
        /\ ~fret.raised =>
               /\ DOMAIN fret.value = DOMAIN ops_prefs \cap KnownPrefs
               /\ \A key \in DOMAIN fret.value :
                      fret.value[key] = IF key = "RegionOrder" THEN ops_prefs[key]
                                        ELSE IntegerOf[ops_prefs[key]]

\* C23 witness: a map with a negative count, a region order and a key that is
\* not known was converted
C23_Witness ==
    /\ fname = "convert_ops_prefs"
    /\ ~fret.raised
    /\ DOMAIN fargs.ops_prefs = {"MaxConcurrentCount", "RegionOrder", "Other"}
    /\ fargs.ops_prefs.MaxConcurrentCount = <<"-", "5">>
    /\ Len(fargs.ops_prefs.RegionOrder) = 2

====
